---------------------------- MODULE Spec2Model ----------------------------
(***************************************************************************)
(* A model of src/src/helper.py: the table consolidation                   *)
(* (merge_matching_columns), the sheet classification of to_excel, the     *)
(* date format detection (identify_date_format), the year annotation       *)
(* (add_year_to_dates), the start year extraction (extract_start_years)    *)
(* and get_fiscal_year.                                                    *)
(*                                                                         *)
(* A Python str is a sequence of one-character strings, so that the        *)
(* regular expressions, strip, split, int() and the f-strings of the code  *)
(* are computed character by character.                                    *)
(***************************************************************************)
EXTENDS Integers, Sequences, FiniteSets, TLC

VARIABLES
    pc,                 \* the statement the running function is at
    \* merge_matching_columns(dfs)
    input,              \* the list as the caller passed it (dfs is consumed)
    dfs, merged_dfs, df, matched_dfs, i,
    \* to_excel(file_path, tables)
    tables, idx, writer,
    \* identify_date_format(date_string) inside add_year_to_dates(date_series, start_year)
    date_string, start_year, rule, date_format, annotated,
    \* extract_start_years(text)
    text, matches, m, start_years, least_year, exc,
    \* get_fiscal_year(fiscal_start_dates, transaction_date)
    fiscal_start_dates, transaction_date, fiscal_year

mergeVars  == <<input, dfs, merged_dfs, df, matched_dfs, i>>
excelVars  == <<tables, idx, writer>>
dateVars   == <<date_string, start_year, rule, date_format, annotated>>
yearVars   == <<text, matches, m, start_years, least_year, exc>>
fiscalVars == <<fiscal_start_dates, transaction_date, fiscal_year>>
vars == <<pc, mergeVars, excelVars, dateVars, yearVars, fiscalVars>>

\* Python's None
None == "None"

---------------------------------------------------------------------------
(* Characters and the str methods the code uses                            *)

Digit == {"0", "1", "2", "3", "4", "5", "6", "7", "8", "9"}
Lower == {"a", "b", "c", "d", "e", "f", "g", "h", "i", "j", "k", "l", "m",
          "n", "o", "p", "q", "r", "s", "t", "u", "v", "w", "x", "y", "z"}
Upper == {"A", "B", "C", "D", "E", "F", "G", "H", "I", "J", "K", "L", "M",
          "N", "O", "P", "Q", "R", "S", "T", "U", "V", "W", "X", "Y", "Z"}
\* \w, \s and \d of the re module, on ASCII text
WordChar  == Digit \cup Lower \cup Upper \cup {"_"}
SpaceChar == {" ", "\t", "\n", "\r"}

DigitVal(c) ==
    CASE c = "0" -> 0 [] c = "1" -> 1 [] c = "2" -> 2 [] c = "3" -> 3
      [] c = "4" -> 4 [] c = "5" -> 5 [] c = "6" -> 6 [] c = "7" -> 7
      [] c = "8" -> 8 [] c = "9" -> 9

DigitChar(d) ==
    CASE d = 0 -> "0" [] d = 1 -> "1" [] d = 2 -> "2" [] d = 3 -> "3"
      [] d = 4 -> "4" [] d = 5 -> "5" [] d = 6 -> "6" [] d = 7 -> "7"
      [] d = 8 -> "8" [] d = 9 -> "9"

\* str.lower() of one ASCII character
LowerChar(c) ==
    CASE c = "A" -> "a" [] c = "B" -> "b" [] c = "C" -> "c" [] c = "D" -> "d"
      [] c = "E" -> "e" [] c = "F" -> "f" [] c = "G" -> "g" [] c = "H" -> "h"
      [] c = "I" -> "i" [] c = "J" -> "j" [] c = "K" -> "k" [] c = "L" -> "l"
      [] c = "M" -> "m" [] c = "N" -> "n" [] c = "O" -> "o" [] c = "P" -> "p"
      [] c = "Q" -> "q" [] c = "R" -> "r" [] c = "S" -> "s" [] c = "T" -> "t"
      [] c = "U" -> "u" [] c = "V" -> "v" [] c = "W" -> "w" [] c = "X" -> "x"
      [] c = "Y" -> "y" [] c = "Z" -> "z" [] OTHER -> c

\* s with every character folded to lower case (how re.IGNORECASE compares)
FoldCase(s) == [j \in 1..Len(s) |-> LowerChar(s[j])]

\* str.strip(): leading and trailing whitespace removed
RECURSIVE LStrip(_)
LStrip(s) ==
    IF s # <<>> /\ Head(s) \in SpaceChar THEN LStrip(Tail(s)) ELSE s

RECURSIVE RStrip(_)
RStrip(s) ==
    IF s # <<>> /\ s[Len(s)] \in SpaceChar
    THEN RStrip(SubSeq(s, 1, Len(s) - 1)) ELSE s

Strip(s) == RStrip(LStrip(s))

\* str.split(sep) for a one-character separator
RECURSIVE Split(_, _)
Split(s, sep) ==
    IF \E j \in 1..Len(s) : s[j] = sep
    THEN LET j == CHOOSE j \in 1..Len(s) :
                      s[j] = sep /\ \A h \in 1..(j - 1) : s[h] # sep
         IN  <<SubSeq(s, 1, j - 1)>> \o Split(SubSeq(s, j + 1, Len(s)), sep)
    ELSE <<s>>

\* str(n) of an int, as the f-strings format it
RECURSIVE NatToStr(_)
NatToStr(n) ==
    IF n < 10 THEN <<DigitChar(n)>>
    ELSE NatToStr(n \div 10) \o <<DigitChar(n % 10)>>

IntToStr(n) == IF n < 0 THEN <<"-">> \o NatToStr(0 - n) ELSE NatToStr(n)

\* The value of a run of decimal digits
RECURSIVE DigitsVal(_)
DigitsVal(s) ==
    IF s = <<>> THEN 0
    ELSE 10 * DigitsVal(SubSeq(s, 1, Len(s) - 1)) + DigitVal(s[Len(s)])

\* int(s): surrounding whitespace is dropped and decimal digits are read;
\* anything else is a ValueError (ok = FALSE).  The strings the code passes
\* to int() hold digits, letters, spaces and "/" only, so signs and
\* underscores do not arise.
PyInt(s) ==
    LET t == Strip(s)
    IN  IF t # <<>> /\ \A j \in 1..Len(t) : t[j] \in Digit
        THEN [ok |-> TRUE, v |-> DigitsVal(t)]
        ELSE [ok |-> FALSE, v |-> 0]

---------------------------------------------------------------------------
(* Regular expressions.  A pattern is a sequence of items:                 *)
(*   [t |-> "b"]                      \b                                   *)
(*   [t |-> "lit", w |-> chars]       literal text                         *)
(*   [t |-> "alt", ws |-> <<w, ..>>]  (w1|w2|...), literal alternatives    *)
(*   [t |-> "rep", cs, lo, hi]        a character class repeated lo..hi    *)
(*                                    times; hi = -1 is unbounded          *)
(*   [t |-> "open"], [t |-> "close"]  the pattern's capture group          *)

B == [t |-> "b"]
Lit(w) == [t |-> "lit", w |-> w]
Alt(ws) == [t |-> "alt", ws |-> ws]
Rep(cs, lo, hi) == [t |-> "rep", cs |-> cs, lo |-> lo, hi |-> hi]
Open == [t |-> "open"]
Close == [t |-> "close"]

IsWordAt(s, p) == p >= 1 /\ p <= Len(s) /\ s[p] \in WordChar

\* \b before the character at p (p = Len(s) + 1 is the end of the string)
Boundary(s, p) == IsWordAt(s, p - 1) # IsWordAt(s, p)

HasPrefixAt(s, p, w) ==
    /\ p + Len(w) - 1 <= Len(s)
    /\ \A j \in 1..Len(w) : s[p + j - 1] = w[j]

RunAt(s, p, cs, n) ==
    /\ p + n - 1 <= Len(s)
    /\ \A j \in 1..n : s[p + j - 1] \in cs

\* Every way items k.. of re match s from position p: the end position e
\* (one past the last character) and the capture group's span g.
RECURSIVE Ends(_, _, _, _, _)
Ends(re, k, s, p, g) ==
    IF k > Len(re) THEN {[e |-> p, g |-> g]}
    ELSE LET it == re[k] IN
         CASE it.t = "b" ->
                IF Boundary(s, p) THEN Ends(re, k + 1, s, p, g) ELSE {}
           [] it.t = "lit" ->
                IF HasPrefixAt(s, p, it.w)
                THEN Ends(re, k + 1, s, p + Len(it.w), g) ELSE {}
           [] it.t = "alt" ->
                UNION { IF HasPrefixAt(s, p, it.ws[a])
                        THEN Ends(re, k + 1, s, p + Len(it.ws[a]), g)
                        ELSE {} : a \in DOMAIN it.ws }
           [] it.t = "rep" ->
                UNION { IF RunAt(s, p, it.cs, n)
                        THEN Ends(re, k + 1, s, p + n, g)
                        ELSE {} :
                        n \in it.lo..(IF it.hi < 0 THEN Len(s) ELSE it.hi) }
           [] it.t = "open"  -> Ends(re, k + 1, s, p, <<p, p>>)
           [] it.t = "close" -> Ends(re, k + 1, s, p, <<g[1], p>>)

MatchesAt(re, s, p) == Ends(re, 1, s, p, <<0, 0>>)

\* re.search(re, s) finds a match
Search(re, s) == \E p \in 1..(Len(s) + 1) : MatchesAt(re, s, p) # {}

\* re.match(re, s) finds a match (anchored at the start)
Match(re, s) == MatchesAt(re, s, 1) # {}


---------------------------------------------------------------------------
(* identify_date_format                                                    *)

Slash == Lit(<<"/">>)
Hyphen == Lit(<<"-">>)
D(lo, hi) == Rep(Digit, lo, hi)

\* (Jan|Feb|Mar|Apr|May|Jun|Jul|Aug|Sep|Oct|Nov|Dec)
MonthAbbr ==
    Alt(<< <<"J","a","n">>, <<"F","e","b">>, <<"M","a","r">>, <<"A","p","r">>,
           <<"M","a","y">>, <<"J","u","n">>, <<"J","u","l">>, <<"A","u","g">>,
           <<"S","e","p">>, <<"O","c","t">>, <<"N","o","v">>, <<"D","e","c">> >>)

\* r'\b\d{4}-\d{2}-\d{2}\b'
ReYmd == <<B, D(4, 4), Hyphen, D(2, 2), Hyphen, D(2, 2), B>>
\* r'\b\d{2}/\d{2}/\d{4}\b'
ReDmY == <<B, D(2, 2), Slash, D(2, 2), Slash, D(4, 4), B>>
\* r'\b\d{2}/\d{2}/\d{2}\b'
ReDmy == <<B, D(2, 2), Slash, D(2, 2), Slash, D(2, 2), B>>
\* r'\b\d{1,2}\s+(Jan|...|Dec)\.\s*\d{4}\b'
ReDbDotY == <<B, D(1, 2), Rep(SpaceChar, 1, -1), MonthAbbr, Lit(<<".">>),
              Rep(SpaceChar, 0, -1), D(4, 4), B>>
\* r'\b\d{1,2}\s+(Jan|...|Dec)\s+\d{2,4}\b'
ReDbY == <<B, D(1, 2), Rep(SpaceChar, 1, -1), MonthAbbr,
           Rep(SpaceChar, 1, -1), D(2, 4), B>>
\* r'\b\d{2}-\w{3}-\d{4}\b'
ReDHbHY == <<B, D(2, 2), Hyphen, Rep(WordChar, 3, 3), Hyphen, D(4, 4), B>>
\* r'\b\d{2}/\d{2}\b'
ReDm == <<B, D(2, 2), Slash, D(2, 2), B>>

\* A reordering of the rules that tries the least specific one second
patterns_dm_early ==
    << [re |-> ReYmd,    fmt |-> "%Y-%m-%d"],
       [re |-> ReDm,     fmt |-> "%d/%m"],
       [re |-> ReDmY,    fmt |-> "%d/%m/%Y"],
       [re |-> ReDmy,    fmt |-> "%d/%m/%y"],
       [re |-> ReDbDotY, fmt |-> "%d %b. %Y"],
       [re |-> ReDbY,    fmt |-> "%d %b %y/%Y"],
       [re |-> ReDHbHY,  fmt |-> "%d-%b-%Y"] >>

\* The (pattern, date_format) list, in the order the loop tries it
patterns ==
    << [re |-> ReYmd,    fmt |-> "%Y-%m-%d"],
       [re |-> ReDmY,    fmt |-> "%d/%m/%Y"],
       [re |-> ReDmy,    fmt |-> "%d/%m/%y"],
       [re |-> ReDbDotY, fmt |-> "%d %b. %Y"],
       [re |-> ReDbY,    fmt |-> "%d %b %y/%Y"],
       [re |-> ReDHbHY,  fmt |-> "%d-%b-%Y"],
       [re |-> ReDm,     fmt |-> "%d/%m"] >>

\* One turn of "for pattern, date_format in patterns": return at a match
TryPattern ==
    /\ pc = "identify"
    /\ rule <= Len(patterns)
    /\ IF Search(patterns[rule].re, date_string)
       THEN /\ date_format' = patterns[rule].fmt
            /\ pc' = "add_year"
            /\ rule' = rule
       ELSE /\ rule' = rule + 1
            /\ UNCHANGED <<date_format, pc>>
    /\ UNCHANGED <<date_string, start_year, annotated>>
    /\ UNCHANGED <<mergeVars, excelVars, yearVars, fiscalVars>>

\* The loop ran out of patterns: return None
NoPattern ==
    /\ pc = "identify"
    /\ rule > Len(patterns)
    /\ date_format' = None
    /\ pc' = "add_year"
    /\ UNCHANGED <<date_string, start_year, rule, annotated>>
    /\ UNCHANGED <<mergeVars, excelVars, yearVars, fiscalVars>>

---------------------------------------------------------------------------
(* add_year_to_dates                                                       *)

\* "a is b" on two str objects: unequal values are never the same object;
\* equal values are the same object or not, as the interpreter interned them.
IsOutcomes(a, b) == IF a = b THEN {TRUE, FALSE} ELSE {FALSE}

\* What add_year_to_dates returns, given how the "is" test came out
AddYearResult(date_series, year, same) ==
    IF same
    THEN IF date_series = <<"0","1","/","0","1">>
         THEN Strip(date_series) \o <<"/">> \o IntToStr(year + 1)
         ELSE Strip(date_series) \o <<"/">> \o IntToStr(year)
    ELSE date_series

AddYear ==
    /\ pc = "add_year"
    /\ \E same \in IsOutcomes(date_format, "dd/mm") :
           annotated' = AddYearResult(date_string, start_year, same)
    /\ pc' = "done"
    /\ UNCHANGED <<date_string, start_year, rule, date_format>>
    /\ UNCHANGED <<mergeVars, excelVars, yearVars, fiscalVars>>

---------------------------------------------------------------------------
(* extract_start_years                                                     *)

Space == Lit(<<" ">>)

\* (?:January|February|...|December)
MonthName ==
    Alt(<< <<"J","a","n","u","a","r","y">>, <<"F","e","b","r","u","a","r","y">>,
           <<"M","a","r","c","h">>, <<"A","p","r","i","l">>, <<"M","a","y">>,
           <<"J","u","n","e">>, <<"J","u","l","y">>,
           <<"A","u","g","u","s","t">>,
           <<"S","e","p","t","e","m","b","e","r">>,
           <<"O","c","t","o","b","e","r">>,
           <<"N","o","v","e","m","b","e","r">>,
           <<"D","e","c","e","m","b","e","r">> >>)

To == Lit(<<" ","t","o"," ">>)

\* r"\b\d{2} \b(?:January|...) (\d{4}) to \d{2} \b(?:January|...) \d{4}\b"
pattern1 == <<B, D(2, 2), Space, B, MonthName, Space, Open, D(4, 4), Close, To,
              D(2, 2), Space, B, MonthName, Space, D(4, 4), B>>
\* r"\b\d{2}/\d{2}/(\d{4}) to \d{2}/\d{2}/\d{4}\b"
pattern2 == <<B, D(2, 2), Slash, D(2, 2), Slash, Open, D(4, 4), Close, To,
              D(2, 2), Slash, D(2, 2), Slash, D(4, 4), B>>
\* r"\bSTATEMENT DATE\s(\d{2}/\d{2}/\d{2})\b"
pattern3 == <<B, Lit(<<"S","T","A","T","E","M","E","N","T"," ","D","A","T","E">>),
              Rep(SpaceChar, 1, 1),
              Open, D(2, 2), Slash, D(2, 2), Slash, D(2, 2), Close, B>>
\* r"\b(\d{2}/\d{2}/\d{2})\b"
pattern4 == <<B, Open, D(2, 2), Slash, D(2, 2), Slash, D(2, 2), Close, B>>

\* f"({pattern1})|({pattern2})|({pattern3})|({pattern4})": the alternatives in
\* the order the regex engine tries them.  Each alternative is wrapped in a
\* group of its own, so alternative j fills groups 2j-1 (its whole match) and
\* 2j (the group inside the pattern).
combined_pattern == <<pattern1, pattern2, pattern3, pattern4>>

EmptyGroups == [j \in 1..(2 * Len(combined_pattern)) |-> <<>>]

\* The groups tuple of alternative a matching s[p..e-1] with inner span g
Groups(s, a, p, hit) ==
    [EmptyGroups EXCEPT ![2 * a - 1] = SubSeq(s, p, hit.e - 1),
                        ![2 * a]     = SubSeq(s, hit.g[1], hit.g[2] - 1)]

\* re.findall(combined_pattern, s) from position p on: the leftmost match,
\* by the first alternative that matches there, then on from its end.  Every
\* alternative has fixed repetition counts and month names none of which is
\* a prefix of another, so it matches at most one way from a position.
RECURSIVE FindAllFrom(_, _)
FindAllFrom(s, p) ==
    IF p > Len(s) THEN <<>>
    ELSE LET alts == {a \in DOMAIN combined_pattern :
                         MatchesAt(combined_pattern[a], s, p) # {}}
         IN  IF alts = {} THEN FindAllFrom(s, p + 1)
             ELSE LET a   == CHOOSE a \in alts : \A b \in alts : a <= b
                      hit == CHOOSE h \in MatchesAt(combined_pattern[a], s, p) : TRUE
                  IN  <<Groups(s, a, p, hit)>> \o FindAllFrom(s, hit.e)

FindAll(s) == FindAllFrom(s, 1)

\* matches = re.findall(combined_pattern, text); start_years = []
FindMatches ==
    /\ pc = "findall"
    /\ matches' = FindAll(text)
    /\ m' = 1
    /\ start_years' = <<>>
    /\ pc' = "loop"
    /\ UNCHANGED <<text, least_year, exc>>
    /\ UNCHANGED <<mergeVars, excelVars, dateVars, fiscalVars>>

\* "for date_str in match: if date_str:": the first non-empty group
FirstNonEmpty(match) ==
    LET js == {j \in DOMAIN match : match[j] # <<>>}
    IN  IF js = {} THEN <<>>
        ELSE match[CHOOSE j \in js : \A h \in js : j <= h]

\* r"\d{2}/\d{2}/\d{2}", which re.match anchors at the start of date_str
ReYyPrefix == <<D(2, 2), Slash, D(2, 2), Slash, D(2, 2)>>

\* The body of the inner loop for the first non-empty date_str: the year to
\* append, or the ValueError of int(year)
FullYear(date_str) ==
    IF Match(ReYyPrefix, date_str)
    THEN LET year == Split(date_str, "/")[3]
         IN  IF ~PyInt(year).ok THEN [raised |-> TRUE, year |-> <<>>]
             ELSE IF PyInt(year).v <= 50
                  THEN [raised |-> FALSE, year |-> <<"2","0">> \o year]
                  ELSE [raised |-> FALSE, year |-> <<"1","9">> \o year]
    ELSE [raised |-> FALSE, year |-> date_str]

\* One turn of "for match in matches"
ProcessMatch ==
    /\ pc = "loop"
    /\ m <= Len(matches)
    /\ LET date_str == FirstNonEmpty(matches[m])
       IN  IF date_str = <<>>
           THEN /\ m' = m + 1
                /\ UNCHANGED <<start_years, pc, exc>>
           ELSE IF FullYear(date_str).raised
           THEN /\ pc' = "raised"
                /\ exc' = "ValueError"
                /\ UNCHANGED <<start_years, m>>
           ELSE /\ start_years' = Append(start_years, FullYear(date_str).year)
                /\ m' = m + 1
                /\ UNCHANGED <<pc, exc>>
    /\ UNCHANGED <<text, matches, least_year>>
    /\ UNCHANGED <<mergeVars, excelVars, dateVars, fiscalVars>>

\* A min() that falls back to a default year on an empty set
LeastOfOrDefault(unique_years) ==
    IF unique_years = {}
    THEN [raised |-> FALSE, least |-> {<<"2","0","0","0">>}]
    ELSE IF \E y \in unique_years : ~PyInt(y).ok
    THEN [raised |-> TRUE, least |-> {}]
    ELSE [raised |-> FALSE,
          least  |-> {y \in unique_years :
                         \A z \in unique_years : PyInt(y).v <= PyInt(z).v}]

\* min(unique_years, key=int): ValueError on an empty set and on an element
\* int() rejects; otherwise an element of the least int value
LeastOf(unique_years) ==
    IF unique_years = {} \/ \E y \in unique_years : ~PyInt(y).ok
    THEN [raised |-> TRUE, least |-> {}]
    ELSE [raised |-> FALSE,
          least  |-> {y \in unique_years :
                         \A z \in unique_years : PyInt(y).v <= PyInt(z).v}]

\* unique_years = set(start_years); least_year = min(...); return least_year
LeastYear ==
    /\ pc = "loop"
    /\ m > Len(matches)
    /\ LET unique_years == {start_years[j] : j \in DOMAIN start_years}
       IN  IF LeastOf(unique_years).raised
           THEN /\ pc' = "raised"
                /\ exc' = "ValueError"
                /\ UNCHANGED least_year
           ELSE /\ pc' = "returned"
                /\ least_year' \in LeastOf(unique_years).least
                /\ UNCHANGED exc
    /\ UNCHANGED <<text, matches, m, start_years>>
    /\ UNCHANGED <<mergeVars, excelVars, dateVars, fiscalVars>>

---------------------------------------------------------------------------
(* get_fiscal_year                                                         *)

\* The comparison with the start day itself left out of the next year
FiscalYearExclusive(start, date) ==
    IF date.month > start[1] \/ (date.month = start[1] /\ date.day > start[2])
    THEN date.year + 1
    ELSE date.year

FiscalYearOf(start, date) ==
    IF date.month > start[1] \/ (date.month = start[1] /\ date.day >= start[2])
    THEN date.year + 1
    ELSE date.year

GetFiscalYear ==
    /\ pc = "fiscal"
    /\ fiscal_year' = FiscalYearOf(fiscal_start_dates, transaction_date)
    /\ pc' = "done"
    /\ UNCHANGED <<fiscal_start_dates, transaction_date>>
    /\ UNCHANGED <<mergeVars, excelVars, dateVars, yearVars>>

---------------------------------------------------------------------------
(* Column labels.  A label is a str, an int (bool is an int to isinstance),*)
(* a float, or a value of another type such as None.                       *)

StrLabel(w)   == [kind |-> "str", val |-> w]
IntLabel(n)   == [kind |-> "int", val |-> n]
FloatLabel(n) == [kind |-> "float", val |-> n]
NoneLabel     == [kind |-> "other", val |-> 0]

IsNumber(x) == x.kind \in {"int", "float"}

\* x == y of Python: numbers compare by value across int and float, a str
\* equals only an equal str
PyEq(x, y) ==
    IF IsNumber(x) /\ IsNumber(y) THEN x.val = y.val
    ELSE x.kind = y.kind /\ x.val = y.val

\* list == list
ListEq(a, b) == Len(a) = Len(b) /\ \A j \in 1..Len(a) : PyEq(a[j], b[j])

---------------------------------------------------------------------------
(* to_excel and contains_only_numbers                                      *)

\* A numeric check that an empty list fails
ContainsOnlyNumbersNonEmpty(lst) ==
    lst # <<>> /\ \A j \in 1..Len(lst) : IsNumber(lst[j])

\* contains_only_numbers(lst): False at the first item that is no int or float
ContainsOnlyNumbers(lst) == \A j \in 1..Len(lst) : IsNumber(lst[j])

\* re.compile(r'\bdate\b', re.IGNORECASE)
date_pattern == <<B, Lit(<<"d","a","t","e">>), B>>

\* A search for "date" anywhere in the label, word or not
HasDateSubstring(header) ==
    header.kind = "str" /\ Search(<<Lit(<<"d","a","t","e">>)>>, FoldCase(header.val))

\* isinstance(header, str) and re.search(date_pattern, header)
IsDateHeader(header) ==
    header.kind = "str" /\ Search(date_pattern, FoldCase(header.val))

\* The sheet_name and header arguments of table.to_excel for the table at
\* position n (from 0) with these columns
SheetOf(columns, n) ==
    IF ContainsOnlyNumbers(columns)
    THEN [sheet_name |-> <<"S","u","m","m","a","r","y","_">> \o IntToStr(n + 1),
          header     |-> FALSE]
    ELSE IF \E j \in 1..Len(columns) : IsDateHeader(columns[j])
    THEN [sheet_name |-> <<"T","r","a","n","s","a","c","t","i","o","n","_">>
                             \o IntToStr(n + 1),
          header     |-> TRUE]
    ELSE [sheet_name |-> <<"S","u","m","m","a","r","y","_">> \o IntToStr(n + 1),
          header     |-> TRUE]

\* One turn of "for idx, table in enumerate(tables)"
WriteSheet ==
    /\ pc = "to_excel"
    /\ idx < Len(tables)
    /\ writer' = Append(writer, SheetOf(tables[idx + 1].columns, idx))
    /\ idx' = idx + 1
    /\ UNCHANGED <<pc, tables>>
    /\ UNCHANGED <<mergeVars, dateVars, yearVars, fiscalVars>>

\* The loop is over and the with block closes the writer
CloseWriter ==
    /\ pc = "to_excel"
    /\ idx = Len(tables)
    /\ pc' = "done"
    /\ UNCHANGED <<tables, idx, writer>>
    /\ UNCHANGED <<mergeVars, dateVars, yearVars, fiscalVars>>

---------------------------------------------------------------------------
(* merge_matching_columns.  A DataFrame is its column labels and its rows, *)
(* a row holding one cell per column.                                      *)

\* The cell pd.concat leaves where a frame has no such column
NaN == <<0, 0, 0>>

\* A signature that leaves the labels as they are
SignatureUntrimmed(columns) == columns

\* [col.strip() if isinstance(col, str) else col for col in columns]
Signature(columns) ==
    [j \in 1..Len(columns) |->
        IF columns[j].kind = "str" THEN StrLabel(Strip(columns[j].val))
        ELSE columns[j]]

\* The position of label c in columns, 0 when it has none
PosOf(columns, c) ==
    IF \E j \in 1..Len(columns) : PyEq(columns[j], c)
    THEN CHOOSE j \in 1..Len(columns) : PyEq(columns[j], c)
    ELSE 0

\* The union of the frames' column labels, in the order they first appear
RECURSIVE UnionColumns(_, _)
UnionColumns(acc, rest) ==
    IF rest = <<>> THEN acc
    ELSE IF PosOf(acc, Head(rest)) = 0
         THEN UnionColumns(Append(acc, Head(rest)), Tail(rest))
         ELSE UnionColumns(acc, Tail(rest))

RECURSIVE AllColumns(_)
AllColumns(frames) ==
    IF frames = <<>> THEN <<>>
    ELSE Head(frames).columns \o AllColumns(Tail(frames))

\* The rows of frame under the labels columns: a cell where the frame has
\* the label, NaN where it has not
Reindexed(frame, columns) ==
    [r \in 1..Len(frame.rows) |->
        [j \in 1..Len(columns) |->
            IF PosOf(frame.columns, columns[j]) = 0 THEN NaN
            ELSE frame.rows[r][PosOf(frame.columns, columns[j])]]]

RECURSIVE ConcatRows(_, _)
ConcatRows(frames, columns) ==
    IF frames = <<>> THEN <<>>
    ELSE Reindexed(Head(frames), columns) \o ConcatRows(Tail(frames), columns)

\* pd.concat(frames, ignore_index=True): the frames are aligned on their
\* column labels as they are (an outer join), the rows follow in the order
\* of the frames
Concat(frames) ==
    LET columns == UnionColumns(<<>>, AllColumns(frames))
    IN  [columns |-> columns, rows |-> ConcatRows(frames, columns)]

\* list.pop(n) leaves the list without its item at n (from 0)
Without(lst, n) == SubSeq(lst, 1, n) \o SubSeq(lst, n + 2, Len(lst))

\* df = dfs.pop(0); matched_dfs = [df]
PopSeed ==
    /\ pc = "merge"
    /\ dfs # <<>>
    /\ df' = Head(dfs)
    /\ dfs' = Tail(dfs)
    /\ matched_dfs' = <<Head(dfs)>>
    /\ i' = Len(dfs) - 2
    /\ pc' = "scan"
    /\ UNCHANGED <<input, merged_dfs>>
    /\ UNCHANGED <<excelVars, dateVars, yearVars, fiscalVars>>

\* A scan whose matches go behind the seed in their original order
ScanStepKeepingOrder ==
    /\ pc = "scan"
    /\ i >= 0
    /\ IF ListEq(Signature(dfs[i + 1].columns), Signature(df.columns))
       THEN /\ matched_dfs' = <<matched_dfs[1], dfs[i + 1]>>
                                 \o Tail(matched_dfs)
            /\ dfs' = Without(dfs, i)
       ELSE UNCHANGED <<matched_dfs, dfs>>
    /\ i' = i - 1
    /\ UNCHANGED <<pc, input, merged_dfs, df>>
    /\ UNCHANGED <<excelVars, dateVars, yearVars, fiscalVars>>

\* One turn of "for i in range(len(dfs) - 1, -1, -1)"
ScanStep ==
    /\ pc = "scan"
    /\ i >= 0
    /\ IF ListEq(Signature(dfs[i + 1].columns), Signature(df.columns))
       THEN /\ matched_dfs' = Append(matched_dfs, dfs[i + 1])
            /\ dfs' = Without(dfs, i)
       ELSE UNCHANGED <<matched_dfs, dfs>>
    /\ i' = i - 1
    /\ UNCHANGED <<pc, input, merged_dfs, df>>
    /\ UNCHANGED <<excelVars, dateVars, yearVars, fiscalVars>>

\* The scan is over: the merged frame, or the seed itself, is appended
EmitMerged ==
    /\ pc = "scan"
    /\ i < 0
    /\ IF Len(matched_dfs) > 1
       THEN merged_dfs' = Append(merged_dfs, Concat(matched_dfs))
       ELSE merged_dfs' = Append(merged_dfs, matched_dfs[1])
    /\ pc' = "merge"
    /\ UNCHANGED <<input, dfs, df, matched_dfs, i>>
    /\ UNCHANGED <<excelVars, dateVars, yearVars, fiscalVars>>

\* "while dfs" ends: return merged_dfs
ReturnMerged ==
    /\ pc = "merge"
    /\ dfs = <<>>
    /\ pc' = "done"
    /\ UNCHANGED mergeVars
    /\ UNCHANGED <<excelVars, dateVars, yearVars, fiscalVars>>

---------------------------------------------------------------------------
(* The inputs the functions are run on, and the specifications             *)

MaxTables == 5
NumRows == 2
MaxSheets == 3
MaxDateFrags == 3
MaxTextFrags == 3

\* The frame at position k of an input list: every cell is <<k, r, c>>, its
\* frame, row and column, so that a cell is found again after the merge
Frame(columns, k) ==
    [columns |-> columns,
     rows    |-> [r \in 1..NumRows |->
                     [c \in 1..Len(columns) |-> <<k, r, c>>]]]

RECURSIVE Join(_, _)
Join(frags, f) ==
    IF f = <<>> THEN <<>> ELSE frags[Head(f)] \o Join(frags, Tail(f))

MergeIdle ==
    /\ input = <<>> /\ dfs = <<>> /\ merged_dfs = <<>>
    /\ df = Frame(<<>>, 0) /\ matched_dfs = <<>> /\ i = 0
ExcelIdle  == tables = <<>> /\ idx = 0 /\ writer = <<>>
DateIdle ==
    /\ date_string = <<>> /\ start_year = 0 /\ rule = 1
    /\ date_format = None /\ annotated = <<>>
YearIdle ==
    /\ text = <<>> /\ matches = <<>> /\ m = 1 /\ start_years = <<>>
    /\ least_year = <<>> /\ exc = None
FiscalIdle ==
    /\ fiscal_start_dates = <<1, 1>>
    /\ transaction_date = [year |-> 0, month |-> 1, day |-> 1]
    /\ fiscal_year = 0

\* Column label lists of the frames merge_matching_columns is run on
MergeHeaders ==
    << <<StrLabel(<<"D","a","t","e">>), StrLabel(<<"A","m","o","u","n","t">>)>>,
       <<StrLabel(<<"D","a","t","e"," ">>), StrLabel(<<" ","A","m","o","u","n","t">>)>>,
       <<StrLabel(<<"D","a","t","e">>), StrLabel(<<"a","m","o","u","n","t">>)>>,
       <<IntLabel(1), StrLabel(<<"A","m","o","u","n","t">>)>> >>

InitMerge ==
    /\ pc = "merge"
    /\ \E n \in 0..MaxTables : \E h \in [1..n -> DOMAIN MergeHeaders] :
           input = [k \in 1..n |-> Frame(MergeHeaders[h[k]], k)]
    /\ dfs = input
    /\ merged_dfs = <<>>
    /\ df = Frame(<<>>, 0) /\ matched_dfs = <<>> /\ i = 0
    /\ ExcelIdle /\ DateIdle /\ YearIdle /\ FiscalIdle

NextMerge == PopSeed \/ ScanStep \/ EmitMerged \/ ReturnMerged

SpecMerge == InitMerge /\ [][NextMerge]_vars

\* Column label lists of the tables to_excel is run on
ExcelHeaders ==
    << <<>>,
       <<IntLabel(1), IntLabel(2), IntLabel(3)>>,
       <<StrLabel(<<"T","r","a","n","s","a","c","t","i","o","n"," ","D","a","t","e">>),
         StrLabel(<<"A","m","o","u","n","t">>)>>,
       <<StrLabel(<<"A","m","o","u","n","t">>), IntLabel(1)>>,
       <<IntLabel(1), StrLabel(<<"D","A","T","E">>)>>,
       <<StrLabel(<<"u","p","d","a","t","e">>), StrLabel(<<"d","a","t","e","_","x">>)>>,
       <<IntLabel(1), FloatLabel(2)>>,
       <<NoneLabel, IntLabel(2)>>,
       <<StrLabel(<<"D","u","e","-","d","a","t","e">>)>> >>

InitExcel ==
    /\ pc = "to_excel"
    /\ \E n \in 1..MaxSheets : \E h \in [1..n -> DOMAIN ExcelHeaders] :
           tables = [k \in 1..n |-> Frame(ExcelHeaders[h[k]], k)]
    /\ idx = 0
    /\ writer = <<>>
    /\ MergeIdle /\ DateIdle /\ YearIdle /\ FiscalIdle

NextExcel == WriteSheet \/ CloseWriter

SpecExcel == InitExcel /\ [][NextExcel]_vars

\* The pieces the date strings are put together from
DateFrags ==
    << <<"1","2","/","0","5","/","2","0","2","4">>,
       <<" ","a","n","d"," ">>,
       <<"1","2","/","0","5">>,
       <<"0","1","/","0","1">>,
       <<"1","5","/","0","3">>,
       <<"2","0","2","4","-","0","5","-","1","2">>,
       <<"1","2","/","0","5","/","2","4">>,
       <<"5"," ","J","a","n","."," ","2","0","2","4">>,
       <<"5"," ","J","a","n"," ","2","4">>,
       <<"0","5","-","J","a","n","-","2","0","2","4">> >>

StartYears == {1999, 2023}

InitDate ==
    /\ pc = "identify"
    /\ \E n \in 0..MaxDateFrags : \E f \in [1..n -> DOMAIN DateFrags] :
           date_string = Join(DateFrags, f)
    /\ start_year \in StartYears
    /\ rule = 1
    /\ date_format = None
    /\ annotated = <<>>
    /\ MergeIdle /\ ExcelIdle /\ YearIdle /\ FiscalIdle

NextDate == TryPattern \/ NoPattern \/ AddYear

SpecDate == InitDate /\ [][NextDate]_vars

\* The pieces the document texts are put together from
TextFrags ==
    << <<"S","T","A","T","E","M","E","N","T"," ","D","A","T","E"," ">>,
       <<"0","5","/","0","6","/","2","3">>,
       <<"0","7","/","0","8","/","5","1"," ">>,
       <<"0","9","/","1","0","/","1","9"," ">>,
       <<"0","1","/","0","1","/","2","0","1","9"," ","t","o"," ",
         "3","1","/","1","2","/","2","0","2","1">>,
       <<"0","1"," ","J","a","n","u","a","r","y"," ","2","0","1","9"," ","t","o"," ",
         "3","1"," ","D","e","c","e","m","b","e","r"," ","2","0","2","1">>,
       <<"n","o"," ","d","a","t","e","s"," ","h","e","r","e">>,
       <<" ">> >>

InitYears ==
    /\ pc = "findall"
    /\ \E n \in 0..MaxTextFrags : \E f \in [1..n -> DOMAIN TextFrags] :
           text = Join(TextFrags, f)
    /\ matches = <<>> /\ m = 1 /\ start_years = <<>>
    /\ least_year = <<>> /\ exc = None
    /\ MergeIdle /\ ExcelIdle /\ DateIdle /\ FiscalIdle

NextYears == FindMatches \/ ProcessMatch \/ LeastYear

SpecYears == InitYears /\ [][NextYears]_vars

Years == {2023, 2024}

IsLeap(y) == (y % 4 = 0 /\ y % 100 # 0) \/ y % 400 = 0

DaysIn(y, mo) ==
    IF mo = 2 THEN (IF IsLeap(y) THEN 29 ELSE 28)
    ELSE IF mo \in {4, 6, 9, 11} THEN 30 ELSE 31

\* The calendar dates of Years, as datetime holds them
Dates ==
    {d \in [year : Years, month : 1..12, day : 1..31] :
        d.day <= DaysIn(d.year, d.month)}

InitFiscal ==
    /\ pc = "fiscal"
    /\ fiscal_start_dates \in (1..12) \X (1..31)
    /\ transaction_date \in Dates
    /\ fiscal_year = 0
    /\ MergeIdle /\ ExcelIdle /\ DateIdle /\ YearIdle

NextFiscal == GetFiscalYear

SpecFiscal == InitFiscal /\ [][NextFiscal]_vars

---------------------------------------------------------------------------
(* Properties of merge_matching_columns, under SpecMerge                   *)

\* Two labels that are equal once a str is trimmed of surrounding whitespace
TrimEq(a, b) ==
    IF a.kind = "str" /\ b.kind = "str" THEN Strip(a.val) = Strip(b.val)
    ELSE PyEq(a, b)

\* Input frames k1 and k2 have the same header signature
SameHeader(k1, k2) ==
    LET a == input[k1].columns
        b == input[k2].columns
    IN  Len(a) = Len(b) /\ \A j \in 1..Len(a) : TrimEq(a[j], b[j])

\* Row q of output frame o holds row r of input frame k: every cell of the
\* input row, under the label it had
HoldsRowAt(o, q, k, r) ==
    \A c \in 1..Len(input[k].columns) :
        \E j \in 1..Len(merged_dfs[o].columns) :
            /\ PyEq(merged_dfs[o].columns[j], input[k].columns[c])
            /\ merged_dfs[o].rows[q][j] = input[k].rows[r][c]

Occurrences(k, r) ==
    {oq \in UNION {{<<o, q>> : q \in 1..Len(merged_dfs[o].rows)} :
                      o \in 1..Len(merged_dfs)} :
        HoldsRowAt(oq[1], oq[2], k, r)}

\* The output frame that holds row r of input frame k
OutputOf(k, r) == (CHOOSE oq \in Occurrences(k, r) : TRUE)[1]

RECURSIVE TotalRows(_)
TotalRows(frames) ==
    IF frames = <<>> THEN 0
    ELSE Len(Head(frames).rows) + TotalRows(Tail(frames))

\* The header lists of the input are MergeHeaders[hs[1]], MergeHeaders[hs[2]], ...
InputHeadersAre(hs) ==
    /\ Len(input) = Len(hs)
    /\ \A k \in 1..Len(hs) :
           /\ Len(input[k].columns) = Len(MergeHeaders[hs[k]])
           /\ \A c \in 1..Len(input[k].columns) :
                  /\ input[k].columns[c].kind = MergeHeaders[hs[k]][c].kind
                  /\ input[k].columns[c].val = MergeHeaders[hs[k]][c].val

\* C1: merge_matching_columns partitions its input by header signature: every
\* row of every input frame is in exactly one output frame, the output holds
\* no other rows, two input frames share an output frame exactly when their
\* trimmed label sequences are equal (case-sensitively), and a one-frame
\* input comes back with its rows in their order.
C1_PartitionBySignature ==
    pc = "done" =>
        /\ \A k \in 1..Len(input) : \A r \in 1..Len(input[k].rows) :
               Cardinality(Occurrences(k, r)) = 1
        /\ TotalRows(merged_dfs) = TotalRows(input)
        /\ \A k \in 1..Len(input) : \A r \in 1..Len(input[k].rows) :
               OutputOf(k, r) = OutputOf(k, 1)
        /\ \A k1, k2 \in 1..Len(input) :
               (OutputOf(k1, 1) = OutputOf(k2, 1)) <=> SameHeader(k1, k2)
        /\ Len(input) = 1 =>
               /\ Len(merged_dfs) = 1
               /\ merged_dfs[1].rows = input[1].rows

\* C1's case: signatures [A, B, A, C, A] give three frames, the first with
\* the rows of the three A frames
C1_Witness ==
    /\ pc = "done"
    /\ InputHeadersAre(<<1, 3, 1, 4, 1>>)
    /\ Len(merged_dfs) = 3
    /\ Len(merged_dfs[1].rows) = 3 * NumRows
    /\ merged_dfs[2] = input[2]
    /\ merged_dfs[3] = input[4]

\* The first input frame of each signature
Seeds == {k \in 1..Len(input) : \A h \in 1..(k - 1) : ~SameHeader(h, k)}

\* The o-th seed in input order
SeedAt(o) == CHOOSE k \in Seeds : Cardinality({h \in Seeds : h <= k}) = o

RECURSIVE Descending(_)
Descending(S) ==
    IF S = {} THEN <<>>
    ELSE LET top == CHOOSE k \in S : \A h \in S : h <= k
         IN  <<top>> \o Descending(S \ {top})

\* The input frames merged under seed s, in the documented order
MergeOrder(s) ==
    <<s>> \o Descending({k \in (s + 1)..Len(input) : SameHeader(s, k)})

RECURSIVE RowsInOrder(_)
RowsInOrder(ks) ==
    IF ks = <<>> THEN <<>>
    ELSE [r \in 1..Len(input[Head(ks)].rows) |-> <<Head(ks), r>>]
             \o RowsInOrder(Tail(ks))

\* The input frame and row an output row came from
Origin(row) ==
    LET c == CHOOSE c \in 1..Len(row) : row[c] # NaN
    IN  <<row[c][1], row[c][2]>>

Origins(frame) == [q \in 1..Len(frame.rows) |-> Origin(frame.rows[q])]

\* C2: the output frames are in the order of their seeds, and each holds the
\* seed's rows, then the rows of the other matching frames from the
\* originally last to the originally earliest, each frame's rows in order.
C2_MergeOrder ==
    pc = "done" =>
        /\ Len(merged_dfs) = Cardinality(Seeds)
        /\ \A o \in 1..Len(merged_dfs) :
               Origins(merged_dfs[o]) = RowsInOrder(MergeOrder(SeedAt(o)))

\* C2's case: [A1, B, A2, C, A3] gives [A1 + A3 + A2, B, C]
C2_Witness ==
    /\ pc = "done"
    /\ InputHeadersAre(<<1, 3, 1, 4, 1>>)
    /\ Len(merged_dfs) = 3
    /\ Origins(merged_dfs[1]) = RowsInOrder(<<1, 5, 3>>)
    /\ Origins(merged_dfs[2]) = RowsInOrder(<<2>>)
    /\ Origins(merged_dfs[3]) = RowsInOrder(<<4>>)

\* C9: every output frame has exactly the columns of its seed, and every
\* row holds its input cells under those columns.
C9_SeedColumnsKept ==
    pc = "done" =>
        \A o \in 1..Len(merged_dfs) :
            LET seed == input[SeedAt(o)]
                out  == merged_dfs[o]
            IN  /\ Len(out.columns) = Len(seed.columns)
                /\ \A c \in 1..Len(seed.columns) :
                       /\ out.columns[c].kind = seed.columns[c].kind
                       /\ out.columns[c].val = seed.columns[c].val
                /\ \A q \in 1..Len(out.rows) :
                       out.rows[q] =
                           input[Origin(out.rows[q])[1]].rows[Origin(out.rows[q])[2]]

---------------------------------------------------------------------------
(* Properties of to_excel, under SpecExcel                                 *)

\* The label is a str holding "date" in any case as a whole word: not next
\* to a letter, a digit or an underscore
HoldsWordDate(label) ==
    /\ label.kind = "str"
    /\ \E p \in 1..(Len(label.val) - 3) :
           /\ FoldCase(SubSeq(label.val, p, p + 3)) = <<"d","a","t","e">>
           /\ (p = 1 \/ label.val[p - 1] \notin WordChar)
           /\ (p + 3 = Len(label.val) \/ label.val[p + 4] \notin WordChar)

SummaryName(n) == <<"S","u","m","m","a","r","y","_">> \o IntToStr(n)
TransactionName(n) ==
    <<"T","r","a","n","s","a","c","t","i","o","n","_">> \o IntToStr(n)

\* C6: the sheet written for the table at 1-based position n is
\* Transaction_n with its header when a label holds the whole word "date";
\* otherwise Summary_n, without its header exactly when every label is an
\* int or a float.
C6_SheetDecisionTable ==
    \A n \in 1..Len(writer) :
        LET columns == tables[n].columns
            dated   == \E c \in 1..Len(columns) : HoldsWordDate(columns[c])
            numeric == \A c \in 1..Len(columns) :
                           columns[c].kind \in {"int", "float"}
        IN  IF dated
            THEN /\ writer[n].sheet_name = TransactionName(n)
                 /\ writer[n].header = TRUE
            ELSE /\ writer[n].sheet_name = SummaryName(n)
                 /\ writer[n].header = ~numeric

\* C6's cases: [1, 2, 3] first gives (Summary_1, no header); a date label
\* among numeric ones gives a Transaction sheet with its header; "update"
\* and "date_x" give a Summary sheet
C6_Witness ==
    /\ pc = "done"
    /\ Len(tables) = 3
    /\ ListEq(tables[1].columns, ExcelHeaders[2])
    /\ writer[1] = [sheet_name |-> SummaryName(1), header |-> FALSE]
    /\ ListEq(tables[2].columns, ExcelHeaders[5])
    /\ writer[2] = [sheet_name |-> TransactionName(2), header |-> TRUE]
    /\ ListEq(tables[3].columns, ExcelHeaders[6])
    /\ writer[3] = [sheet_name |-> SummaryName(3), header |-> TRUE]

\* C10 as stated: a table with no column labels is written as Summary_n
\* with its header shown.
C10_EmptyHeaderShown ==
    \A n \in 1..Len(writer) :
        Len(tables[n].columns) = 0 =>
            writer[n] = [sheet_name |-> SummaryName(n), header |-> TRUE]

\* C10, amended: a table with no column labels is written as Summary_n with
\* its header hidden, and the loop goes on to the next table.
C10_EmptyHeaderHidden ==
    /\ \A n \in 1..Len(writer) :
           Len(tables[n].columns) = 0 =>
               writer[n] = [sheet_name |-> SummaryName(n), header |-> FALSE]
    /\ (pc = "to_excel" /\ idx < Len(tables)
            /\ Len(tables[idx + 1].columns) = 0) => ENABLED WriteSheet

\* C10's case: a table with no labels was written, after another table
C10_Witness ==
    /\ pc = "done"
    /\ Len(tables) >= 2
    /\ Len(tables[2].columns) = 0
    /\ writer[2] = [sheet_name |-> SummaryName(2), header |-> FALSE]

---------------------------------------------------------------------------
(* Properties of get_fiscal_year, under SpecFiscal                         *)

\* C8: the fiscal year is year + 1 exactly when (month, day) is at or after
\* (startMonth, startDay) in lexicographic order, and year otherwise; with
\* start (4, 1), 2024-04-01 is in 2025 and 2024-03-31 in 2024.
C8_FiscalYearInclusive ==
    pc = "done" =>
        LET ahead == 100 * transaction_date.month + transaction_date.day
                        >= 100 * fiscal_start_dates[1] + fiscal_start_dates[2]
        IN  /\ ahead => fiscal_year = transaction_date.year + 1
            /\ ~ahead => fiscal_year = transaction_date.year
            /\ (fiscal_start_dates = <<4, 1>> /\ transaction_date.year = 2024) =>
                   /\ (transaction_date.month = 4 /\ transaction_date.day = 1)
                          => fiscal_year = 2025
                   /\ (transaction_date.month = 3 /\ transaction_date.day = 31)
                          => fiscal_year = 2024

\* C8's case: the date is the fiscal start day itself
C8_Witness ==
    /\ pc = "done"
    /\ fiscal_start_dates = <<4, 1>>
    /\ transaction_date = [year |-> 2024, month |-> 4, day |-> 1]
    /\ fiscal_year = 2025

---------------------------------------------------------------------------
(* Properties of identify_date_format and add_year_to_dates, under SpecDate*)

\* The rules in the documented order: YYYY-MM-DD, DD/MM/YYYY, DD/MM/YY,
\* DD Mon. YYYY, DD Mon YY-or-YYYY, DD-Mon-YYYY, DD/MM
DocumentedRules ==
    << <<ReYmd, "%Y-%m-%d">>, <<ReDmY, "%d/%m/%Y">>, <<ReDmy, "%d/%m/%y">>,
       <<ReDbDotY, "%d %b. %Y">>, <<ReDbY, "%d %b %y/%Y">>,
       <<ReDHbHY, "%d-%b-%Y">>, <<ReDm, "%d/%m">> >>

\* The tag of the first documented rule that matches somewhere in s
FirstRuleTag(s) ==
    LET hits == {r \in DOMAIN DocumentedRules : Search(DocumentedRules[r][1], s)}
    IN  IF hits = {} THEN None
        ELSE DocumentedRules[CHOOSE r \in hits : \A q \in hits : r <= q][2]

\* identify_date_format has returned
Identified == pc \in {"add_year", "done"}

\* C7 as stated: the tag is that of the first matching rule in the
\* documented order, None when no rule matches, and every string holding a
\* DD/MM/YYYY date is tagged %d/%m/%Y.
C7_FirstRuleAndDmYAlways ==
    Identified =>
        /\ date_format = FirstRuleTag(date_string)
        /\ Search(ReDmY, date_string) => date_format = "%d/%m/%Y"

\* C7, amended: the tag is that of the first matching rule in the documented
\* order, None when no rule matches; a string holding a DD/MM/YYYY date is
\* never tagged %d/%m, and is tagged %d/%m/%Y unless it also holds a
\* YYYY-MM-DD date, which tags it %Y-%m-%d.
C7_FirstRuleWins ==
    Identified =>
        /\ date_format = FirstRuleTag(date_string)
        /\ Search(ReDmY, date_string) =>
               /\ date_format # "%d/%m"
               /\ IF Search(ReYmd, date_string)
                  THEN date_format = "%Y-%m-%d"
                  ELSE date_format = "%d/%m/%Y"

\* C7's case: "12/05/2024 and 12/05" is tagged %d/%m/%Y
C7_Witness ==
    /\ Identified
    /\ date_string = Join(DateFrags, <<1, 2, 3>>)
    /\ Search(ReDm, date_string)
    /\ date_format = "%d/%m/%Y"

\* C3: a string of the bare DD/MM format comes back as "01/01/{start_year+1}"
\* when it is "01/01" and as "{string}/{start_year}" otherwise; a string of
\* any other format comes back unchanged.
C3_YearAppended ==
    pc = "done" =>
        annotated =
            IF FirstRuleTag(date_string) = "%d/%m"
            THEN IF date_string = <<"0","1","/","0","1">>
                 THEN <<"0","1","/","0","1","/">> \o IntToStr(start_year + 1)
                 ELSE date_string \o <<"/">> \o IntToStr(start_year)
            ELSE date_string

---------------------------------------------------------------------------
(* Properties of extract_start_years, under SpecYears                      *)

\* extract_start_years has ended, by a return or by an exception
Ended == pc \in {"returned", "raised"}

\* "20" + YY for YY <= 50, "19" + YY for YY > 50, of a DD/MM/YY date
Expanded(date) ==
    LET yy == SubSeq(date, Len(date) - 1, Len(date))
    IN  IF DigitsVal(yy) <= 50 THEN <<"2","0">> \o yy ELSE <<"1","9">> \o yy

\* The year a match contributes, by the sub-pattern that matched: groups 2
\* and 4 are the first YYYY of the two range patterns, groups 6 and 8 the
\* DD/MM/YY date of the other two
DocumentedYear(match) ==
    IF match[2] # <<>> THEN match[2]
    ELSE IF match[4] # <<>> THEN match[4]
    ELSE IF match[6] # <<>> THEN Expanded(match[6])
    ELSE Expanded(match[8])

\* C4: for a text with a match of one of the four sub-patterns, the result
\* is the smallest of the years the matches contribute, as a 4-digit string.
C4_LeastDocumentedYear ==
    (Ended /\ FindAll(text) # <<>>) =>
        LET years == {DocumentedYear(FindAll(text)[j]) : j \in DOMAIN FindAll(text)}
        IN  /\ pc = "returned"
            /\ least_year \in years
            /\ \A y \in years : DigitsVal(least_year) <= DigitsVal(y)

\* No sub-pattern matches anywhere in s
NoDateIn(s) ==
    \A a \in DOMAIN combined_pattern : \A p \in 1..(Len(s) + 1) :
        MatchesAt(combined_pattern[a], s, p) = {}

\* C5: on a text that no sub-pattern matches, extract_start_years ends by
\* raising (the ValueError of min() on an empty set, which nothing in the
\* function catches) and never returns a year.
C5_NoDateRaises ==
    NoDateIn(text) =>
        /\ pc # "returned"
        /\ least_year = <<>>
        /\ Ended => (pc = "raised" /\ exc = "ValueError")
        /\ pc = "loop" => (matches = <<>> /\ ENABLED LeastYear)

\* C5's case: "no dates here" has raised
C5_Witness ==
    /\ pc = "raised"
    /\ exc = "ValueError"
    /\ text = <<"n","o"," ","d","a","t","e","s"," ","h","e","r","e">>
    /\ NoDateIn(text)

=============================================================================
